---- MODULE Spec2Model ----
(***************************************************************************)
(* Session-scoped wallet custody and swap execution of the 9MM DEX MCP     *)
(* server: UserService (session tables, revocation, reaper), the shared    *)
(* WalletService (chainId -> connected wallet), the NineMMService router   *)
(* cache, and the execute_wallet_swap handler with every await as a step.  *)
(* QuoteSpec runs the quote tools alone (getBestQuote, getQuoteFromDEX,    *)
(* getSwapQuote, compareChainPrices, toggleDEX) over venue answers of wei  *)
(* scale, with BigInt arithmetic exact and parseFloat rounding to a        *)
(* double; QuoteFairSpec adds the fairness the axios timeouts give.        *)
(***************************************************************************)
EXTENDS Integers, Sequences, FiniteSets, TLC

\* ------------------------------------------------------------------ bounds
MaxUsers == 2            \* createUser calls ever made

\* --------------------------------------------------------------- constants
QuoteTTL == 30000                        \* validUntil: Date.now() + 30000
maxInactiveTime == 24 * 60 * 60 * 1000   \* isSessionActive
SupportedChains == {8453, 369, 146}      \* providers of WalletService
DefaultSlippage == 50                    \* slippage 0.5 (%), times 100

NINE_MM == "9mm"
ONEINCH == "1inch"
UNISWAP_V3 == "uniswap_v3"

\* ------------------------------------- amounts: decimal strings of wei
\* An amount is the integer its decimal string denotes, written in radix
\* 10^4, lowest digit first, no leading zero: BigInt(s), exact at any size.
Radix == 10 ^ 4
Zero == <<>>
limb(a, i) == IF i <= Len(a) THEN a[i] ELSE 0

RECURSIVE norm(_)
norm(a) == IF a # <<>> /\ a[Len(a)] = 0 THEN norm(SubSeq(a, 1, Len(a) - 1)) ELSE a

\* BigInt(n) of a small number n
fromInt(n) == norm(<<n % Radix, (n \div Radix) % Radix, n \div (Radix * Radix)>>)

\* n * 10^18 wei
e18(n) == <<0, 0, 0, 0>> \o fromInt(n * 100)

RECURSIVE addFrom(_, _, _, _)
addFrom(a, b, i, carry) ==
  IF i > Len(a) /\ i > Len(b) THEN (IF carry = 0 THEN <<>> ELSE <<carry>>)
  ELSE LET t == limb(a, i) + limb(b, i) + carry
       IN <<t % Radix>> \o addFrom(a, b, i + 1, t \div Radix)
add(a, b) == addFrom(a, b, 1, 0)

\* a - b for a >= b
RECURSIVE subFrom(_, _, _, _)
subFrom(a, b, i, borrow) ==
  IF i > Len(a) THEN <<>>
  ELSE LET t == a[i] - limb(b, i) - borrow
       IN <<t % Radix>> \o subFrom(a, b, i + 1, IF t < 0 THEN 1 ELSE 0)
sub(a, b) == norm(subFrom(a, b, 1, 0))

\* a * f for a small factor f <= 10^4
RECURSIVE mulFrom(_, _, _, _)
mulFrom(a, f, i, carry) ==
  IF i > Len(a) THEN (IF carry = 0 THEN <<>> ELSE <<carry>>)
  ELSE LET t == a[i] * f + carry
       IN <<t % Radix>> \o mulFrom(a, f, i + 1, t \div Radix)
mul(a, f) == norm(mulFrom(a, f, 1, 0))

\* a / 10000n, the BigInt division: the lowest digit is dropped
div10000(a) == IF a = <<>> THEN a ELSE Tail(a)

RECURSIVE lessAt(_, _, _)
lessAt(a, b, i) ==
  IF i = 0 THEN FALSE
  ELSE IF a[i] # b[i] THEN a[i] < b[i] ELSE lessAt(a, b, i - 1)
less(a, b) == IF Len(a) # Len(b) THEN Len(a) < Len(b) ELSE lessAt(a, b, Len(a))

\* ------------------------------------------- parseFloat: IEEE 754 doubles
\* A double is kept as the integer it equals. A number of more than 53 bits
\* is rounded to 53 significant bits, ties to even; a number of three digits
\* (below 10^12) has fewer. (Amounts stay below 2^76.)
RECURSIVE pow2(_)
pow2(j) == IF j < 13 THEN fromInt(2 ^ j) ELSE mul(pow2(j - 13), 2 ^ 13)
Pow2 == [j \in 0..84 |-> pow2(j)]

\* the number of bits of a; a of L digits has between 13(L-1) and 14L bits
bitLength(a) ==
  CHOOSE j \in (IF a = <<>> THEN 0 ELSE 13 * (Len(a) - 1)) .. 14 * Len(a) :
    less(a, Pow2[j]) /\ (j = 0 \/ ~less(a, Pow2[j - 1]))

\* a mod M for M = 2^n <= 2^24, digit by digit from the top
RECURSIVE modFrom(_, _, _, _)
modFrom(a, i, M, r) ==
  IF i = 0 THEN r
  ELSE modFrom(a, i - 1, M, ((((r * 100) % M) * 100) + a[i]) % M)

toDouble(a) ==
  LET e == bitLength(a) IN
  IF Len(a) <= 3 \/ e <= 53 THEN a
  ELSE LET k == e - 53
           m == modFrom(a, Len(a), 2 ^ (k + 1), 0)
           r == m % (2 ^ k)
           odd == m >= 2 ^ k
           down == sub(a, fromInt(r))
       IN IF r > 2 ^ (k - 1) \/ (r = 2 ^ (k - 1) /\ odd)
          THEN add(down, fromInt(2 ^ k)) ELSE down

parseFloat(s) == toDouble(s)

\* ------------------------------------------------------------ input sets
Users == 1..MaxUsers
ChainLists == {<<8453, 369>>}                 \* createUser(chainIds)
SwapChains == {8453}                          \* execute_wallet_swap chainId
\* the instants (ms) the clock is read at: a quote's lifetime just over, and
\* the inactivity ceiling reached (from the second) and exceeded (from the first)
Instants == {0, QuoteTTL + 1, maxInactiveTime + QuoteTTL + 1}
ApiAmounts == {fromInt(2000)}                          \* buyAmount a venue API reports
RouterAmounts == {fromInt(1975), fromInt(2000)}                 \* router.getAmountsOut(...)[1]
ReceiptStatus == {"executed", "reverted"}     \* receipt.status 1 / 0
\* the quote tools: a 9MM chain with 1inch, a 9MM-only chain, mainnet, and a
\* chain no venue supports
QuoteChains == {8453, 369, 1, 999}
Slippages == {0, DefaultSlippage}
\* amounts of wei scale: 0, 1975, 1980 and 2000 * 10^18, and a wei off
QuoteAmounts == {Zero, e18(1975), sub(e18(1980), fromInt(1)), e18(1980),
                 e18(2000), add(e18(2000), fromInt(1))}

VARIABLES
  now,            \* Date.now()
  users,          \* UserService.users: userId -> IUser
  userWallets,    \* UserService.userWallets: userId -> IUserWallet
  sessionTokens,  \* UserService.sessionTokens: token -> userId
  userSessions,   \* UserService.userSessions: sessionId -> userId
  wallets,        \* WalletService.wallets: chainId -> private key connected
  contracts,      \* NineMMService.contracts, router entries: chainId -> runner
  funded,         \* keys whose address holds at least the gas minimum
  pc,             \* per caller: where its handler is suspended
  loc,            \* per caller: the handler's local variables
  result,         \* what the step just taken answered, and to whom (if it did)
  lastSubmit,     \* the swapExactTokensForTokens the step just taken sent (if it did)
  revoked,        \* token and key of every session revokeSession(token) ended
  isActive,       \* DEXAggregatorService.dexConfigs: protocol -> config.isActive
  quoting         \* the quote call in flight (suspended at its await), if any

vars == <<now, users, userWallets, sessionTokens, userSessions, wallets,
          contracts, funded, pc, loc, result, lastSubmit, revoked, isActive,
          quoting>>
tables == <<users, userWallets, sessionTokens, userSessions>>

\* ----------------------------------------------------------- Map helpers
EmptyMap == [x \in {} |-> 0]
MapSet(m, k, v) == [x \in (DOMAIN m) \cup {k} |-> IF x = k THEN v ELSE m[x]]
MapDelete(m, k) == [x \in (DOMAIN m) \ {k} |-> m[x]]
MapHas(m, k) == k \in DOMAIN m

NoQuote == [success |-> FALSE]
NoLoc == [chainIds |-> <<>>, ix |-> 0, key |-> 0, chain |-> 0, wallet |-> 0,
          best |-> NoQuote]
NoSubmit == [user |-> 0]
NoQuoting == [op |-> "none", chainId |-> 0, slippage |-> 0, dexs |-> <<>>,
              ix |-> 0, answers |-> <<>>]
NoResult == [caller |-> 0, op |-> "none", value |-> "none", receipt |-> "none",
             privateKey |-> 0]
\* what a handler answers; receipt is the status of the receipt it waited for,
\* privateKey the data.wallet.privateKey (and mnemonic) of the answer, 0 if
\* the answer has no such field
Answer(u, op, r) == [caller |-> u, op |-> op, value |-> r, receipt |-> "none",
                     privateKey |-> 0]

\* ------------------------------------------------- generators (randomBytes)
generateUserId(n) == n
generateSessionId(n) == n
generateJWTToken(userId) == userId
\* a generator without entropy: every wallet gets the same key
createRandom_Fixed(n) == 1
createRandom(n) == n
addressOf(key) == 1000 + key

Tokens == {generateJWTToken(generateUserId(n)) : n \in Users}
Keys == {createRandom(n) : n \in Users}

\* --------------------------------------------------------- UserService
NULL == [user |-> 0]

getUserSession(token) ==
  IF ~MapHas(sessionTokens, token) THEN NULL
  ELSE LET userId == sessionTokens[token] IN
       IF ~MapHas(users, userId) \/ ~MapHas(userWallets, userId) THEN NULL
       ELSE [user |-> userId, wallet |-> userWallets[userId], token |-> token]

isSessionActive(user) == (now - user.lastActive) < maxInactiveTime

\* the four tables once createUser has stored the new session
createUserTables(userId, sessionId, key, chainIds) ==
  LET token == generateJWTToken(userId) IN
  [users |-> MapSet(users, userId,
        [id |-> userId, sessionId |-> sessionId, lastActive |-> now,
         walletAddress |-> addressOf(key)]),
   userWallets |-> MapSet(userWallets, userId,
        [address |-> addressOf(key), privateKey |-> key, chainIds |-> chainIds]),
   sessionTokens |-> MapSet(sessionTokens, token, userId),
   userSessions |-> MapSet(userSessions, sessionId, userId)]

\* a revokeSession that answers true and removes nothing
revokeSessionTables_Keep(token) ==
  [users |-> users, userWallets |-> userWallets,
   sessionTokens |-> sessionTokens, userSessions |-> userSessions]

\* a revokeSession that forgets the token and keeps the three other entries
revokeSessionTables_TokenOnly(token) ==
  [users |-> users, userWallets |-> userWallets,
   sessionTokens |-> MapDelete(sessionTokens, token), userSessions |-> userSessions]

\* the four tables once revokeSession(token) has removed a known user
revokeSessionTables(token) ==
  LET userId == sessionTokens[token] IN
  [users |-> MapDelete(users, userId),
   userWallets |-> MapDelete(userWallets, userId),
   sessionTokens |-> MapDelete(sessionTokens, token),
   userSessions |-> MapDelete(userSessions, users[userId].sessionId)]

\* the users cleanupExpiredSessions removes
expiredUsers == {u \in DOMAIN users : ~isSessionActive(users[u])}

\* -------------------------------------------------------- WalletService
\* importWallet, one turn of its loop: connect the wallet to the chain
\* (chains without a provider are skipped), then await the balance
connectWallet(w, chainId, key) ==
  IF chainId \in SupportedChains THEN MapSet(w, chainId, key) ELSE w

\* disconnectWallet() without a chainId
disconnectWallet(w) == EmptyMap

\* checkGasBalance: balance < minBalance throws
checkGasBalance(key) == key \in funded

\* ------------------------------------------------------- NineMMService
ProviderRunner == [kind |-> "provider", key |-> 0]
SignerRunner(key) == [kind |-> "signer", key |-> key]

\* getRouterContract: the cache after the call; the entry is built with the
\* runner of the first call and kept for every later one
getRouterContract(cache, chainId, runner) ==
  IF MapHas(cache, chainId) THEN cache ELSE MapSet(cache, chainId, runner)

\* getSwapQuote: toAmountMin = toAmount * (10000 - slippageBN) / 10000
toAmountMin(toAmount, slippageBN) == div10000(mul(toAmount, 10000 - slippageBN))

\* -------------------------------------------------- DEXAggregatorService
\* dexConfigs in insertion order; config.isActive is the variable isActive
dexConfigs ==
  << [protocol |-> ONEINCH,    supportedChains |-> {1, 56, 137, 42161, 10, 8453}],
     [protocol |-> "paraswap", supportedChains |-> {1, 56, 137, 42161, 10, 43114}],
     [protocol |-> UNISWAP_V3, supportedChains |-> {1, 137, 42161, 10, 8453}],
     [protocol |-> "sushiswap", supportedChains |-> {1, 56, 137, 42161, 10}],
     [protocol |-> "pancakeswap", supportedChains |-> {56}],
     [protocol |-> NINE_MM,    supportedChains |-> {8453, 369, 146}] >>

Protocols == {dexConfigs[i].protocol : i \in DOMAIN dexConfigs}

RECURSIVE protocolsOf(_)
protocolsOf(cfgs) ==
  IF cfgs = <<>> THEN <<>> ELSE <<Head(cfgs).protocol>> \o protocolsOf(Tail(cfgs))

SupportsChain(cfg, chainId) == chainId \in cfg.supportedChains
IsNot9MM(protocol) == protocol # NINE_MM

getAvailableDEXsForChain(chainId) ==
  protocolsOf(SelectSeq(dexConfigs,
                LAMBDA cfg : isActive[cfg.protocol] /\ SupportsChain(cfg, chainId)))

is9MMChain(chainId) == chainId \in {8453, 369, 146}

\* the venues getBestQuote asks: the available ones, and on the 9MM chains
\* 9MM filtered out of them and put at the front
quotedDEXs(chainId) ==
  IF is9MMChain(chainId)
  THEN <<NINE_MM>> \o SelectSeq(getAvailableDEXsForChain(chainId), IsNot9MM)
  ELSE getAvailableDEXsForChain(chainId)

quotedSet(chainId) == {quotedDEXs(chainId)[i] : i \in DOMAIN quotedDEXs(chainId)}

\* what a venue answered: ok = FALSE stands for a throw or a timeout; an
\* answer without buyAmount counts as the amount 0
Failed == [ok |-> FALSE, amount |-> Zero]
Responses == {Failed} \cup {[ok |-> TRUE, amount |-> a] : a \in ApiAmounts}

configOf(protocol) ==
  dexConfigs[CHOOSE i \in DOMAIN dexConfigs : dexConfigs[i].protocol = protocol]

\* getQuoteFromDEX: the quote built from a venue's answer. 1inch and ParaSwap
\* copy the quoted amount into toAmountMin; 9MM takes the slippage off; the
\* Uniswap, SushiSwap and PancakeSwap adapters always throw
getQuoteFromDEX(protocol, chainId, slippageBN, resp) ==
  IF ~SupportsChain(configOf(protocol), chainId) \/ ~resp.ok
  THEN [success |-> FALSE]
  ELSE IF protocol \in {ONEINCH, "paraswap"}
  THEN [success |-> TRUE, dexProtocol |-> protocol, toAmount |-> resp.amount,
        toAmountMin |-> resp.amount, slippage |-> slippageBN,
        validUntil |-> now + QuoteTTL]
  ELSE IF protocol = NINE_MM
  THEN [success |-> TRUE, dexProtocol |-> protocol, toAmount |-> resp.amount,
        toAmountMin |-> IF resp.amount = Zero THEN Zero
                        ELSE div10000(mul(resp.amount, 10000 - slippageBN)),
        slippage |-> slippageBN,
        validUntil |-> now + QuoteTTL]
  ELSE [success |-> FALSE]

IsSuccess(q) == q.success

\* an aggregation that gives up as soon as one venue fails
validQuotes_AllOrNothing(dexs, chainId, slippageBN, resps) ==
  LET all == [i \in DOMAIN dexs |->
                getQuoteFromDEX(dexs[i], chainId, slippageBN, resps[dexs[i]])]
  IN IF SelectSeq(all, IsSuccess) = all THEN all ELSE <<>>

\* the quotes of the venues whose promise was fulfilled with success
validQuotes(dexs, chainId, slippageBN, resps) ==
  LET all == [i \in DOMAIN dexs |->
                getQuoteFromDEX(dexs[i], chainId, slippageBN, resps[dexs[i]])]
  IN SelectSeq(all, IsSuccess)

\* validQuotes.reduce: current replaces best when parseFloat says it is greater
RECURSIVE reduceBest(_, _)
reduceBest(best, rest) ==
  IF rest = <<>> THEN best
  ELSE reduceBest(IF less(parseFloat(best.toAmount), parseFloat(Head(rest).toAmount))
                  THEN Head(rest) ELSE best,
                  Tail(rest))

RECURSIVE reduceWorst(_, _)
reduceWorst(worst, rest) ==
  IF rest = <<>> THEN worst
  ELSE reduceWorst(IF less(parseFloat(Head(rest).toAmount), parseFloat(worst.toAmount))
                   THEN Head(rest) ELSE worst,
                   Tail(rest))

Is9MMQuote(q) == q.dexProtocol = NINE_MM

\* (bestAmount - nineMMAmount) / bestAmount <= 0.01 in doubles. 0 / 0 is NaN
\* and compares false. Otherwise the quotient of two doubles d and b is at
\* most the double 0.01 exactly when 100 d <= b: the nearest quotient above
\* 1/100 exceeds it by 1/(100 b), more than half a step above the double 0.01.
differenceWithin(bestAmount, nineMMAmount) ==
  /\ bestAmount # Zero
  /\ ~less(bestAmount, mul(toDouble(sub(bestAmount, nineMMAmount)), 100))

\* savings against the worst quote, in doubles; the percentage is kept as
\* the quotient it is 100 times the double of, which is Infinity or NaN (not
\* finite) when the worst amount is 0
savingsOf(bestQuote, worstQuote) ==
  LET b == parseFloat(bestQuote.toAmount)
      w == parseFloat(worstQuote.toAmount)
      d == toDouble(sub(b, w))
  IN [amount |-> d,
      percentage |-> [of |-> d, over |-> w, finite |-> w # Zero]]

\* a getBestQuote without its catch: no valid quote at all is thrown
getBestQuote_Uncaught(dexs, chainId, slippageBN, resps) ==
  LET valid == validQuotes(dexs, chainId, slippageBN, resps) IN
  IF valid = <<>> THEN [success |-> FALSE, code |-> "thrown"]
  ELSE [success |-> TRUE, bestQuote |-> Head(valid), allQuotes |-> valid,
        savings |-> savingsOf(Head(valid), Head(valid))]

\* getBestQuote, from the venues dexs it asked (availableDEXs) and their
\* answers: the greatest quote, replaced by the 9MM quote when that one is
\* within 1% of it; no valid quote at all is the AGGREGATOR_ERROR failure
getBestQuote(dexs, chainId, slippageBN, resps) ==
  LET valid == validQuotes(dexs, chainId, slippageBN, resps) IN
  IF valid = <<>> THEN [success |-> FALSE, code |-> "AGGREGATOR_ERROR"]
  ELSE LET top == reduceBest(Head(valid), Tail(valid))
           nine == SelectSeq(valid, Is9MMQuote)
           best == IF is9MMChain(chainId) /\ nine # <<>>
                      /\ differenceWithin(parseFloat(top.toAmount),
                                          parseFloat(nine[1].toAmount))
                   THEN nine[1] ELSE top
           worst == reduceWorst(Head(valid), Tail(valid))
       IN [success |-> TRUE, bestQuote |-> best, allQuotes |-> valid,
           savings |-> savingsOf(best, worst)]

\* ==================================================================== Init
Init ==
  /\ now = 0
  /\ users = EmptyMap /\ userWallets = EmptyMap
  /\ sessionTokens = EmptyMap /\ userSessions = EmptyMap
  /\ wallets = EmptyMap
  /\ contracts = EmptyMap
  /\ funded = {}
  /\ pc = [u \in Users |-> "none"]
  /\ loc = [u \in Users |-> NoLoc]
  /\ result = NoResult
  /\ lastSubmit = NoSubmit
  /\ revoked = {}
  /\ isActive = [p \in Protocols |-> TRUE]
  /\ quoting = NoQuoting

\* the handler op of caller u returns r
Return(u, op, r) ==
  /\ pc' = [pc EXCEPT ![u] = "idle"]
  /\ loc' = [loc EXCEPT ![u] = NoLoc]
  /\ result' = Answer(u, op, r)

\* the step answers nobody / sends no transaction
NoAnswer == result' = NoResult
NoSend == lastSubmit' = NoSubmit

\* ------------------------------------------ create_new_wallet (createUser)
\* createUser up to the first await of importWallet: ids and key generated,
\* the new wallet connected to the first chain
CreateUserStart(u, chainIds) ==
  /\ pc[u] = "none"
  /\ \A v \in Users : v < u => pc[v] # "none"
  /\ wallets' = connectWallet(wallets, chainIds[1], createRandom(u))
  /\ pc' = [pc EXCEPT ![u] = "creating"]
  /\ loc' = [loc EXCEPT ![u] = [NoLoc EXCEPT !.chainIds = chainIds, !.ix = 1,
                                            !.key = createRandom(u)]]
  /\ NoAnswer /\ NoSend
  /\ UNCHANGED <<isActive, quoting, now, tables, contracts, funded, revoked>>

\* provider.getBalance resolved: next chain of the loop, or the session stored
CreateUserImport(u) ==
  /\ pc[u] = "creating"
  /\ IF loc[u].ix < Len(loc[u].chainIds)
     THEN /\ wallets' = connectWallet(wallets, loc[u].chainIds[loc[u].ix + 1],
                                      loc[u].key)
          /\ loc' = [loc EXCEPT ![u].ix = @ + 1]
          /\ NoAnswer
          /\ UNCHANGED <<tables, pc>>
     ELSE LET t == createUserTables(generateUserId(u), generateSessionId(u),
                                    loc[u].key, loc[u].chainIds) IN
          /\ users' = t.users /\ userWallets' = t.userWallets
          /\ sessionTokens' = t.sessionTokens /\ userSessions' = t.userSessions
          /\ pc' = [pc EXCEPT ![u] = "idle"]
          /\ loc' = [loc EXCEPT ![u] = NoLoc]
          /\ result' = [Answer(u, "create", "created")
                          EXCEPT !.privateKey = t.userWallets[generateUserId(u)].privateKey]
          /\ UNCHANGED wallets
  /\ NoSend
  /\ UNCHANGED <<isActive, quoting, now, contracts, funded, revoked>>

\* provider.getBalance threw: importWallet, generateWallet and createUser
\* rethrow, the handler answers success: false
CreateUserFail(u) ==
  /\ pc[u] = "creating"
  /\ Return(u, "create", "createFailed")
  /\ NoSend
  /\ UNCHANGED <<isActive, quoting, now, tables, wallets, contracts, funded, revoked>>

\* ------------------------------- execute_wallet_swap (handleExecuteWalletSwap)
\* getUserSession(token) is null: the handler answers without touching anything
SwapUnauthorized(u) ==
  /\ pc[u] = "idle"
  /\ getUserSession(generateJWTToken(u)) = NULL
  /\ result' = Answer(u, "swap", "Unauthorized")
  /\ NoSend
  /\ UNCHANGED <<isActive, quoting, now, tables, wallets, contracts, funded, pc, loc, revoked>>

\* session found; initializeUserWallet starts importWallet with the session's
\* key: connected to the first chain, then the first await
SwapStart(u, chainId) ==
  /\ pc[u] = "idle"
  /\ getUserSession(generateJWTToken(u)) # NULL
  /\ LET s == getUserSession(generateJWTToken(u)) IN
     /\ wallets' = connectWallet(wallets, s.wallet.chainIds[1], s.wallet.privateKey)
     /\ loc' = [loc EXCEPT ![u] = [NoLoc EXCEPT !.chainIds = s.wallet.chainIds,
                  !.ix = 1, !.key = s.wallet.privateKey, !.chain = chainId]]
  /\ pc' = [pc EXCEPT ![u] = "swapImport"]
  /\ NoAnswer /\ NoSend
  /\ UNCHANGED <<isActive, quoting, now, tables, contracts, funded, revoked>>

\* provider.getBalance resolved inside importWallet: next chain, or the import
\* is over and WalletService.executeSwap reads this.wallets.get(chainId)
SwapImport(u) ==
  /\ pc[u] = "swapImport"
  /\ IF loc[u].ix < Len(loc[u].chainIds)
     THEN /\ wallets' = connectWallet(wallets, loc[u].chainIds[loc[u].ix + 1],
                                      loc[u].key)
          /\ loc' = [loc EXCEPT ![u].ix = @ + 1]
          /\ NoAnswer
          /\ UNCHANGED pc
     ELSE /\ IF MapHas(wallets, loc[u].chain)
             THEN /\ loc' = [loc EXCEPT ![u].wallet = wallets[loc[u].chain]]
                  /\ pc' = [pc EXCEPT ![u] = "swapGas"]
                  /\ NoAnswer
             ELSE Return(u, "swap", "NoWallet")
          /\ UNCHANGED wallets
  /\ NoSend
  /\ UNCHANGED <<isActive, quoting, now, tables, contracts, funded, revoked>>

\* provider.getBalance threw inside importWallet
SwapImportFail(u) ==
  /\ pc[u] = "swapImport"
  /\ Return(u, "swap", "ImportFailed")
  /\ NoSend
  /\ UNCHANGED <<isActive, quoting, now, tables, wallets, contracts, funded, revoked>>

\* checkGasBalance resolved for the address of the wallet read from the map:
\* too low throws, otherwise getBestQuote is called
SwapGasCheck(u) ==
  /\ pc[u] = "swapGas"
  /\ IF checkGasBalance(loc[u].wallet)
     THEN /\ pc' = [pc EXCEPT ![u] = "swapQuote"]
          /\ NoAnswer
          /\ UNCHANGED loc
     ELSE Return(u, "swap", "InsufficientGas")
  /\ NoSend
  /\ UNCHANGED <<isActive, quoting, now, tables, wallets, contracts, funded, revoked>>

\* getBestQuote resolved. A failure is rethrown; otherwise, whatever venue the
\* best quote names, nineMMService.executeSwap is called on the 9MM chains
\* and starts getSwapQuote, which caches a provider-bound router if none is
SwapQuote(u) ==
  /\ pc[u] = "swapQuote"
  /\ \E resps \in [Protocols -> Responses] :
     (\A p \in Protocols \ quotedSet(loc[u].chain) : resps[p] = Failed) /\
     \E agg \in {getBestQuote(quotedDEXs(loc[u].chain), loc[u].chain,
                               DefaultSlippage, resps)} :
     IF ~agg.success
     THEN Return(u, "swap", "QuoteFailed") /\ UNCHANGED contracts
     ELSE IF agg.bestQuote.dexProtocol = NINE_MM
             \/ loc[u].chain \in {8453, 369, 146}
     THEN /\ loc' = [loc EXCEPT ![u].best = agg.bestQuote]
          /\ pc' = [pc EXCEPT ![u] = "swapRequote"]
          /\ contracts' = getRouterContract(contracts, loc[u].chain, ProviderRunner)
          /\ NoAnswer
     ELSE Return(u, "swap", "NotImplemented") /\ UNCHANGED contracts
  /\ NoSend
  /\ UNCHANGED <<isActive, quoting, now, tables, wallets, funded, revoked>>

\* getSwapQuote threw (getAmountsOut or estimateGas failed)
SwapRequoteFail(u) ==
  /\ pc[u] = "swapRequote"
  /\ Return(u, "swap", "SwapFailed")
  /\ NoSend
  /\ UNCHANGED <<isActive, quoting, now, tables, wallets, contracts, funded, revoked>>

\* getSwapQuote resolved with toAmount; the router comes from the cache and
\* swapExactTokensForTokens is sent through its runner: a provider-bound
\* router cannot send, a signer-bound one signs with the signer it was built
\* with. The network accepts the transaction or rejects it.
SwapSubmit(u, toAmount, accepted) ==
  /\ pc[u] = "swapRequote"
  /\ LET cache == getRouterContract(contracts, loc[u].chain,
                                    SignerRunner(loc[u].wallet))
         runner == cache[loc[u].chain]
     IN /\ contracts' = cache
        /\ IF runner.kind = "provider"
           THEN Return(u, "swap", "SwapFailed") /\ NoSend
           ELSE /\ lastSubmit' =
                     [user |-> u, key |-> loc[u].key, signer |-> runner.key,
                      bestDex |-> loc[u].best.dexProtocol, dexUsed |-> NINE_MM,
                      amountOutMin |-> toAmountMin(toAmount, DefaultSlippage),
                      bestMin |-> loc[u].best.toAmountMin,
                      at |-> now, validUntil |-> loc[u].best.validUntil]
                /\ IF accepted
                   THEN /\ pc' = [pc EXCEPT ![u] = "swapConfirm"]
                        /\ loc' = [loc EXCEPT ![u] = [NoLoc EXCEPT !.chain = loc[u].chain]]
                        /\ NoAnswer
                   ELSE Return(u, "swap", "SwapFailed")
  /\ UNCHANGED <<isActive, quoting, now, tables, wallets, funded, revoked>>

\* provider.waitForTransaction(txHash) resolved with the receipt of a mined
\* transaction, executed or reverted: success: true is returned without a
\* look at receipt.status
SwapConfirm(u, status) ==
  /\ pc[u] = "swapConfirm"
  /\ pc' = [pc EXCEPT ![u] = "idle"]
  /\ loc' = [loc EXCEPT ![u] = NoLoc]
  /\ result' = [Answer(u, "swap", "Confirmed") EXCEPT !.receipt = status]
  /\ NoSend
  /\ UNCHANGED <<isActive, quoting, now, tables, wallets, contracts, funded, revoked>>

\* a resolve that spends the token: the session is gone once it was looked up
GetWalletPrivateKey_Once(u) ==
  /\ pc[u] = "idle"
  /\ LET s == getUserSession(generateJWTToken(u)) IN
     /\ result' = IF s = NULL THEN Answer(u, "export", "Unauthorized")
                  ELSE [Answer(u, "export", "exported")
                          EXCEPT !.privateKey = s.wallet.privateKey]
     /\ sessionTokens' = MapDelete(sessionTokens, generateJWTToken(u))
  /\ NoSend
  /\ UNCHANGED <<isActive, quoting, now, users, userWallets, userSessions, wallets, contracts,
                 funded, pc, loc, revoked>>

\* ------------------------- get_wallet_private_key (handleGetWalletPrivateKey)
\* the token alone is asked for; the session's privateKey and mnemonic are
\* returned
GetWalletPrivateKey(u) ==
  /\ pc[u] = "idle"
  /\ LET s == getUserSession(generateJWTToken(u)) IN
     result' = IF s = NULL THEN Answer(u, "export", "Unauthorized")
               ELSE [Answer(u, "export", "exported")
                       EXCEPT !.privateKey = s.wallet.privateKey]
  /\ NoSend
  /\ UNCHANGED <<isActive, quoting, now, tables, wallets, contracts, funded, pc, loc, revoked>>

\* ------------------------------------------ logout_wallet (revokeSession)
RevokeSession(u) ==
  LET token == generateJWTToken(u) IN
  /\ pc[u] # "none"
  /\ IF MapHas(sessionTokens, token) /\ MapHas(users, sessionTokens[token])
     THEN LET t == revokeSessionTables(token) IN
          /\ wallets' = disconnectWallet(wallets)
          /\ users' = t.users /\ userWallets' = t.userWallets
          /\ sessionTokens' = t.sessionTokens /\ userSessions' = t.userSessions
          /\ result' = Answer(u, "logout", "true")
          /\ revoked' = revoked \cup
               {[token |-> token,
                 key |-> userWallets[sessionTokens[token]].privateKey]}
     ELSE /\ result' = Answer(u, "logout", "false")
          /\ UNCHANGED <<tables, wallets, revoked>>
  /\ NoSend
  /\ UNCHANGED <<isActive, quoting, now, contracts, funded, pc, loc>>

\* ------------------------------------- setInterval: cleanupExpiredSessions
CleanupExpiredSessions ==
  LET gone == expiredUsers IN
  /\ users' = [x \in (DOMAIN users) \ gone |-> users[x]]
  /\ userWallets' = [x \in (DOMAIN userWallets) \ gone |-> userWallets[x]]
  /\ sessionTokens' = [t \in {x \in DOMAIN sessionTokens : sessionTokens[x] \notin gone}
                         |-> sessionTokens[t]]
  /\ userSessions' = [x \in (DOMAIN userSessions) \ {users[g].sessionId : g \in gone}
                         |-> userSessions[x]]
  /\ NoAnswer /\ NoSend
  /\ UNCHANGED <<isActive, quoting, now, wallets, contracts, funded, pc, loc, revoked>>

\* --------------------------------------------- WalletService.addLiquidity
\* the connected wallet of the chain, gas permitting, is handed to
\* nineMMService.addLiquidity, whose getRouterContract(chainId, signer) builds
\* the cached router with that signer when none is cached yet
AddLiquidity(chainId) ==
  /\ MapHas(wallets, chainId)
  /\ checkGasBalance(wallets[chainId])
  /\ contracts' = getRouterContract(contracts, chainId, SignerRunner(wallets[chainId]))
  /\ NoAnswer /\ NoSend
  /\ UNCHANGED <<isActive, quoting, now, tables, wallets, funded, pc, loc, revoked>>

\* ------------------------------------------------------------ environment
\* native units arrive at the address of a generated key
Fund(key) ==
  /\ key \notin funded
  /\ \E u \in Users : pc[u] # "none" /\ createRandom(u) = key
  /\ funded' = funded \cup {key}
  /\ NoAnswer /\ NoSend
  /\ UNCHANGED <<isActive, quoting, now, tables, wallets, contracts, pc, loc, revoked>>

\* time passes
Advance(t) ==
  /\ t > now
  /\ now' = t
  /\ NoAnswer /\ NoSend
  /\ UNCHANGED <<isActive, quoting, tables, wallets, contracts, funded, pc, loc,
                 revoked>>

\* -------------------------------------------------------- the quote tools
\* The quote tools are called one at a time; toggleDEX runs at any moment.
\* the venues, of those asked, whose adapter sends a request at all
Answering(dexs) == {dexs[i] : i \in DOMAIN dexs} \cap {NINE_MM, ONEINCH, "paraswap"}
QuoteResponses == {Failed} \cup {[ok |-> TRUE, amount |-> a] : a \in QuoteAmounts}

\* get_best_swap_quote up to the await of Promise.allSettled: the venues are
\* chosen and every adapter has sent its request
GetBestSwapQuoteStart(chainId, slippageBN) ==
  /\ quoting = NoQuoting
  /\ quoting' = [NoQuoting EXCEPT !.op = "get_best_swap_quote",
                   !.chainId = chainId, !.slippage = slippageBN,
                   !.dexs = quotedDEXs(chainId)]
  /\ NoAnswer /\ NoSend
  /\ UNCHANGED <<isActive, now, tables, wallets, contracts, funded, pc, loc, revoked>>

\* every adapter has settled (answered, thrown, or run into its 10 s axios
\* timeout): handleGetBestSwapQuote hands getBestQuote's answer on
GetBestSwapQuote(chainId, slippageBN, resps) ==
  /\ quoting.op = "get_best_swap_quote"
  /\ quoting.chainId = chainId /\ quoting.slippage = slippageBN
  /\ \E data \in {getBestQuote(quoting.dexs, chainId, slippageBN, resps)} :
       result' = [caller |-> 0, op |-> "get_best_swap_quote",
                  value |-> IF data.success THEN "ok" ELSE "error",
                  receipt |-> "none", privateKey |-> 0, chainId |-> chainId,
                  slippage |-> slippageBN, resps |-> resps, data |-> data,
                  dexs |-> quoting.dexs]
  /\ quoting' = NoQuoting
  /\ NoSend
  /\ UNCHANGED <<isActive, now, tables, wallets, contracts, funded, pc, loc, revoked>>

\* get_quote_from_specific_dex: getQuoteFromDEX for the venue named
GetQuoteFromSpecificDEX(protocol, chainId, slippageBN, resp) ==
  /\ quoting = NoQuoting
  /\ \E data \in {getQuoteFromDEX(protocol, chainId, slippageBN, resp)} :
       result' = [caller |-> 0, op |-> "get_quote_from_specific_dex",
                  value |-> IF data.success THEN "ok" ELSE "error",
                  receipt |-> "none", privateKey |-> 0, chainId |-> chainId,
                  slippage |-> slippageBN, data |-> data]
  /\ NoSend
  /\ UNCHANGED <<isActive, quoting, now, tables, wallets, contracts, funded, pc,
                 loc, revoked>>

\* NineMMService.getSwapQuote: the router (cached provider-bound if none is)
\* answers getAmountsOut with toAmount
GetSwapQuote(chainId, toAmount, slippageBN) ==
  /\ quoting = NoQuoting
  /\ contracts' = getRouterContract(contracts, chainId, ProviderRunner)
  /\ result' = [caller |-> 0, op |-> "get_swap_quote", value |-> "ok",
                receipt |-> "none", privateKey |-> 0, chainId |-> chainId,
                slippage |-> slippageBN,
                data |-> [success |-> TRUE, dexProtocol |-> NINE_MM,
                          toAmount |-> toAmount,
                          toAmountMin |-> toAmountMin(toAmount, slippageBN),
                          slippage |-> slippageBN, validUntil |-> now + QuoteTTL]]
  /\ NoSend
  /\ UNCHANGED <<isActive, quoting, now, tables, wallets, funded, pc, loc, revoked>>

\* ------------------------------------- compare_9mm_prices, get_9mm_best_chain
\* the chains compareChainPrices asks, in order, and what a chain's router
\* answers: ok = FALSE stands for getAmountsOut or estimateGas throwing
CompareChains == <<8453, 369, 146>>
CompareTools == {"compare_9mm_prices", "get_9mm_best_chain"}
CompareAmounts == {e18(1975), e18(2000)}
CompareResponses == {Failed} \cup {[ok |-> TRUE, amount |-> a] : a \in CompareAmounts}

\* the I9MMSwapQuote getSwapQuote builds on chainId (slippage 0.5, 50 bps)
chainQuote(chainId, toAmount) ==
  [chainId |-> chainId, toAmount |-> toAmount,
   toAmountMin |-> toAmountMin(toAmount, DefaultSlippage)]

\* quotes.sort((a, b) => Number(BigInt(b.toAmount) - BigInt(a.toAmount))): a
\* stable sort, greatest toAmount first
RECURSIVE insertQuote(_, _)
insertQuote(sorted, q) ==
  IF sorted = <<>> THEN <<q>>
  ELSE IF less(Head(sorted).toAmount, q.toAmount) THEN <<q>> \o sorted
  ELSE <<Head(sorted)>> \o insertQuote(Tail(sorted), q)

RECURSIVE sortQuotes(_)
sortQuotes(quotes) ==
  IF quotes = <<>> THEN <<>>
  ELSE insertQuote(sortQuotes(SubSeq(quotes, 1, Len(quotes) - 1)),
                   quotes[Len(quotes)])

\* compareChainPrices: the quotes of the chains whose getSwapQuote did not
\* throw, sorted
RECURSIVE collectQuotes(_, _)
collectQuotes(answers, i) ==
  IF i > Len(answers) THEN <<>>
  ELSE (IF answers[i].ok
        THEN <<chainQuote(CompareChains[i], answers[i].amount)>>
        ELSE <<>>) \o collectQuotes(answers, i + 1)

compareChainPrices(answers) == sortQuotes(collectQuotes(answers, 1))

\* what the tool answers once compareChainPrices returned quotes:
\* handleComparePrices answers success: true whatever the list holds,
\* handleGetBestChain answers the first quote, or a failure for null
compareAnswer(tool, answers) ==
  LET quotes == compareChainPrices(answers) IN
  [caller |-> 0, op |-> tool,
   value |-> IF tool = "get_9mm_best_chain" /\ quotes = <<>> THEN "error" ELSE "ok",
   receipt |-> "none", privateKey |-> 0, answers |-> answers,
   data |-> IF tool = "get_9mm_best_chain" /\ quotes # <<>> THEN <<quotes[1]>>
            ELSE quotes]

\* the tool is called: getSwapQuote of the first chain runs up to its await
\* of router.getAmountsOut, the router cached provider-bound if none is
ComparePricesStart(tool) ==
  /\ quoting = NoQuoting
  /\ quoting' = [NoQuoting EXCEPT !.op = tool, !.ix = 1]
  /\ contracts' = getRouterContract(contracts, CompareChains[1], ProviderRunner)
  /\ NoAnswer /\ NoSend
  /\ UNCHANGED <<isActive, now, tables, wallets, funded, pc, loc, revoked>>

\* the RPC calls of the chain in turn resolved or threw: the next chain's
\* getSwapQuote starts, or, after the last chain, the tool answers
ComparePricesChain(resp) ==
  /\ quoting.op \in CompareTools
  /\ LET answers == Append(quoting.answers, resp) IN
     IF quoting.ix < Len(CompareChains)
     THEN /\ quoting' = [quoting EXCEPT !.ix = @ + 1, !.answers = answers]
          /\ contracts' = getRouterContract(contracts, CompareChains[quoting.ix + 1],
                                            ProviderRunner)
          /\ NoAnswer
     ELSE /\ quoting' = NoQuoting
          /\ result' = compareAnswer(quoting.op, answers)
          /\ UNCHANGED contracts
  /\ NoSend
  /\ UNCHANGED <<isActive, now, tables, wallets, funded, pc, loc, revoked>>

\* ------------------------------------------------------------- toggleDEX
\* the venues toggleDEX is called for
Toggled == {NINE_MM, ONEINCH}

\* toggleDEX(protocol, active): updateDEXConfig(protocol, {isActive})
ToggleDEX(protocol, active) ==
  /\ isActive[protocol] # active
  /\ isActive' = [isActive EXCEPT ![protocol] = active]
  /\ NoAnswer /\ NoSend
  /\ UNCHANGED <<quoting, now, tables, wallets, contracts, funded, pc, loc, revoked>>

\* ===================================================================== Next
Next ==
  \/ \E u \in Users, chainIds \in ChainLists : CreateUserStart(u, chainIds)
  \/ \E u \in Users : CreateUserImport(u)
  \/ \E u \in Users : CreateUserFail(u)
  \/ \E u \in Users : SwapUnauthorized(u)
  \/ \E u \in Users, chainId \in SwapChains : SwapStart(u, chainId)
  \/ \E u \in Users : SwapImport(u)
  \/ \E u \in Users : SwapImportFail(u)
  \/ \E u \in Users : SwapGasCheck(u)
  \/ \E u \in Users : SwapQuote(u)
  \/ \E u \in Users : SwapRequoteFail(u)
  \/ \E u \in Users, a \in RouterAmounts, ok \in BOOLEAN : SwapSubmit(u, a, ok)
  \/ \E u \in Users, status \in ReceiptStatus : SwapConfirm(u, status)
  \/ \E u \in Users : GetWalletPrivateKey(u)
  \/ \E u \in Users : RevokeSession(u)
  \/ CleanupExpiredSessions
  \/ \E chainId \in SwapChains : AddLiquidity(chainId)
  \/ \E key \in Keys : Fund(key)
  \/ \E t \in Instants : Advance(t)

Spec == Init /\ [][Next]_vars

\* Every continuation but the wait for the receipt is taken to run in the
\* end: the axios quote calls carry a timeout, and the RPC reads and the
\* transaction send are granted to settle, which only narrows the runs looked
\* at. provider.waitForTransaction(txHash) is called without a timeout, so
\* nothing makes SwapConfirm happen.
Bounded(u) ==
  \/ CreateUserImport(u) \/ CreateUserFail(u)
  \/ SwapImport(u) \/ SwapImportFail(u)
  \/ SwapGasCheck(u)
  \/ SwapQuote(u)
  \/ SwapRequoteFail(u)
  \/ \E a \in RouterAmounts, ok \in BOOLEAN : SwapSubmit(u, a, ok)

FairSpec == Spec /\ \A u \in Users : WF_vars(Bounded(u))

\* The quote tools on their own, over every combination of venue answers
QuoteNext ==
  \/ \E chainId \in QuoteChains, slippageBN \in Slippages :
        GetBestSwapQuoteStart(chainId, slippageBN)
  \/ \E r \in [Answering(quoting.dexs) -> QuoteResponses] :
        GetBestSwapQuote(quoting.chainId, quoting.slippage,
          [p \in Protocols |-> IF p \in Answering(quoting.dexs) THEN r[p] ELSE Failed])
  \/ \E protocol \in Protocols, chainId \in QuoteChains, slippageBN \in Slippages,
        resp \in QuoteResponses :
        GetQuoteFromSpecificDEX(protocol, chainId, slippageBN, resp)
  \/ \E chainId \in SwapChains, toAmount \in QuoteAmounts, slippageBN \in Slippages :
        GetSwapQuote(chainId, toAmount, slippageBN)
  \/ \E tool \in CompareTools : ComparePricesStart(tool)
  \/ \E resp \in CompareResponses : ComparePricesChain(resp)
  \/ \E protocol \in Toggled, active \in BOOLEAN : ToggleDEX(protocol, active)

QuoteSpec == Init /\ [][QuoteNext]_vars

\* The adapters' requests go through axios with timeout: 10000, so every
\* adapter settles and the continuation of Promise.allSettled runs in the
\* end. The RPC calls of getSwapQuote (router.getAmountsOut, estimateGas) are
\* given no deadline, and a JsonRpcProvider whose node has never answered
\* retries its network detection without end, so nothing makes the
\* continuation of compareChainPrices run.
QuoteFairSpec ==
  QuoteSpec /\ WF_vars(\E r \in [Answering(quoting.dexs) -> QuoteResponses] :
                         GetBestSwapQuote(quoting.chainId, quoting.slippage,
                           [p \in Protocols |-> IF p \in Answering(quoting.dexs)
                                                THEN r[p] ELSE Failed]))

\* ================================================================== claims
Submitted == lastSubmit # NoSubmit
walletKeys == {wallets[c] : c \in DOMAIN wallets}
contractKeys == {contracts[c].key : c \in {x \in DOMAIN contracts :
                                             contracts[x].kind = "signer"}}
tableKeys == {userWallets[x].privateKey : x \in DOMAIN userWallets}

\* C1: every swap submitted for a session is signed with that session's own
\* key, never with another session's.
C1_OwnSigner == Submitted => lastSubmit.signer = lastSubmit.key

\* C2: no transaction is submitted for a quote whose validUntil has elapsed.
C2_NeverStale == Submitted => lastSubmit.at <= lastSubmit.validUntil

\* C3: the venue the transaction is submitted to is the venue of bestQuote.
C3_ProvenanceVenue == Submitted => lastSubmit.dexUsed = lastSubmit.bestDex

\* C4: the minimum-output bound of the submitted transaction is the chosen
\* quote's toAmountMin.
C4_QuoteRealized == Submitted => lastSubmit.amountOutMin = lastSubmit.bestMin

\* C5: once revokeSession(t) returned true, getUserSession(t) is null in
\* every later state, whatever is created, resolved or reaped afterwards.
C5_RevocationTerminal == \A r \in revoked : getUserSession(r.token) = NULL
C5_Witness ==
  /\ revoked # {}
  /\ \E t \in Tokens : getUserSession(t) # NULL
  /\ now > 0

\* C6: a session whose lastActive lies more than 24h back is not retrievable.
C6_ExpiredNotRetrievable ==
  \A t \in DOMAIN sessionTokens :
    (MapHas(users, sessionTokens[t])
       /\ now - users[sessionTokens[t]].lastActive > maxInactiveTime)
    => getUserSession(t) = NULL

\* C7: every bearer token maps to exactly one wallet record, and no two
\* sessions of the table share a wallet record (address or key).
C7_OneWalletPerToken ==
  /\ \A t \in DOMAIN sessionTokens :
       MapHas(users, sessionTokens[t]) /\ MapHas(userWallets, sessionTokens[t])
  /\ \A t1, t2 \in DOMAIN sessionTokens :
       t1 # t2 =>
         /\ sessionTokens[t1] # sessionTokens[t2]
         /\ userWallets[sessionTokens[t1]].privateKey
              # userWallets[sessionTokens[t2]].privateKey
         /\ userWallets[sessionTokens[t1]].address
              # userWallets[sessionTokens[t2]].address
C7_Witness == Cardinality(DOMAIN sessionTokens) = 2

\* C8: after revokeSession succeeded, no component holds the session's key:
\* not the session tables, not the wallet service, not a cached contract.
C8_KeyDisposed ==
  \A r \in revoked : r.key \notin (tableKeys \cup walletKeys \cup contractKeys)

\* C9: the wait for the confirmation ends: a call that waits for its receipt
\* returns in the end (confirmed, or pending once a budget is spent).
C9_ConfirmWaitEnds ==
  \A u \in Users : (pc[u] = "swapConfirm") ~> (pc[u] # "swapConfirm")

\* C10: when the session's own wallet holds less than the gas minimum at the
\* gas check, the call answers InsufficientGas there, before any quote
\* request and any submission.
C10_GasFirst ==
  [][\A u \in Users :
       (pc[u] = "swapGas" /\ loc[u].key \notin funded /\ pc'[u] # "swapGas")
       => result' = Answer(u, "swap", "InsufficientGas")]_vars

\* C11: a call with an Invalid token (unknown, revoked, or of a session idle
\* for more than 24h) begins nothing: no wallet initialisation follows it.
TokenInvalid(u) ==
  LET t == generateJWTToken(u) IN
  \/ ~MapHas(sessionTokens, t)
  \/ ~MapHas(users, sessionTokens[t])
  \/ now - users[sessionTokens[t]].lastActive > maxInactiveTime
C11_InvalidUnauthorized ==
  [][\A u \in Users : (pc[u] = "idle" /\ TokenInvalid(u)) => pc'[u] = "idle"]_vars

\* C12: a transaction that failed remotely (rejected at submission, or mined
\* and reverted) is answered with a failure result.
C12_FailureSurfaces ==
  (result.op = "swap" /\ result.receipt = "reverted") => result.value # "Confirmed"

\* C19: a run of the reaper removes every expired session and leaves its key
\* in no component of the server.
C19_ReaperReclaims ==
  [][\A g \in expiredUsers :
       (g \notin DOMAIN users' /\ revoked' = revoked)
       => userWallets[g].privateKey \notin (tableKeys' \cup walletKeys' \cup contractKeys')]_vars

\* C20: every successful resolution of a session (here: the one that starts
\* execute_wallet_swap) sets the session's lastActive to the present instant.
C20_ResolveTouches ==
  [][\A u \in Users :
       (pc[u] = "idle" /\ pc'[u] = "swapImport")
       => users'[sessionTokens[generateJWTToken(u)]].lastActive = now]_vars

\* ------------------------------------------------ claims on the quote tools
Aggregated == result.op = "get_best_swap_quote"
Asked == {result.dexs[i] : i \in DOMAIN result.dexs}
Survivors == {p \in Asked : result.resps[p].ok}
quoteSet(quotes) == {quotes[i] : i \in DOMAIN quotes}
maxAmount(quotes) ==
  (CHOOSE q \in quoteSet(quotes) :
     \A r \in quoteSet(quotes) : ~less(q.toAmount, r.toAmount)).toAmount
minAmount(quotes) ==
  (CHOOSE q \in quoteSet(quotes) :
     \A r \in quoteSet(quotes) : ~less(r.toAmount, q.toAmount)).toAmount
\* amount is at most 1% below top, in exact arithmetic
WithinOnePercent(top, amount) == ~less(top, mul(sub(top, amount), 100))

\* C13: when every adapter failed the answer is the failure, and a successful
\* answer never carries a best quote of amount 0.
C13_NoZeroQuote ==
  Aggregated =>
    /\ Survivors = {} => ~result.data.success
    /\ result.data.success => result.data.bestQuote.toAmount # Zero

\* C14: when some but not all of the venues asked fail, the answer is a
\* success whose allQuotes are the quotes of the venues that answered, one each.
C14_PartialFailure ==
  (Aggregated /\ Survivors # {} /\ Survivors # Asked) =>
    /\ result.data.success
    /\ Len(result.data.allQuotes) = Cardinality(Survivors)
    /\ \A p \in Survivors : \E q \in quoteSet(result.data.allQuotes) :
         q.dexProtocol = p /\ q.toAmount = result.resps[p].amount
C14_Witness ==
  /\ Aggregated /\ result.chainId = 8453
  /\ Survivors = {NINE_MM, ONEINCH}
  /\ result.data.success

\* C15: bestQuote is one of allQuotes, and its amount is the greatest, or it
\* is the 9MM quote and within 1% of the greatest.
C15_BestOfAll ==
  (Aggregated /\ result.data.success) =>
    LET all == result.data.allQuotes
        best == result.data.bestQuote
    IN /\ best \in quoteSet(all)
       /\ \/ \A q \in quoteSet(all) : ~less(best.toAmount, q.toAmount)
          \/ /\ best.dexProtocol = NINE_MM
             /\ WithinOnePercent(maxAmount(all), best.toAmount)

\* C16: when 9MM produced a quote, it is chosen exactly when it is within 1%
\* of the greatest amount; otherwise bestQuote has the greatest amount.
C16_TieBreak ==
  (Aggregated /\ result.data.success) =>
    LET all == result.data.allQuotes
        nine == {q \in quoteSet(all) : q.dexProtocol = NINE_MM}
    IN nine # {} =>
       IF \E n \in nine : WithinOnePercent(maxAmount(all), n.toAmount)
       THEN result.data.bestQuote \in nine
       ELSE /\ result.data.bestQuote \notin nine
            /\ result.data.bestQuote.toAmount = maxAmount(all)

\* C17: every quote answered for an amount above 0 has toAmountMin =
\* floor(toAmount * (1 - slippage)), below toAmount when the slippage is positive.
QuotesAnswered ==
  IF Aggregated /\ result.data.success THEN quoteSet(result.data.allQuotes)
  ELSE IF result.op \in {"get_quote_from_specific_dex", "get_swap_quote"}
          /\ result.data.success THEN {result.data}
  ELSE {}
C17_MinBuyAmount ==
  \A q \in {x \in QuotesAnswered : x.toAmount # Zero} :
    /\ q.toAmountMin = div10000(mul(q.toAmount, 10000 - q.slippage))
    /\ q.slippage > 0 => less(q.toAmountMin, q.toAmount)

\* C18: savings.amount is bestQuote's amount less the least amount of
\* allQuotes, and savings.percentage is that difference over the least amount
\* (where that amount is not 0; a difference of 0 is 0% over any amount).
C18_Savings ==
  (Aggregated /\ result.data.success) =>
    LET least == minAmount(result.data.allQuotes)
        diff == sub(result.data.bestQuote.toAmount, least)
    IN least # Zero =>
       /\ result.data.savings.amount = diff
       /\ \/ diff = Zero /\ result.data.savings.percentage.of = Zero
          \/ result.data.savings.percentage =
               [of |-> diff, over |-> least, finite |-> TRUE]

\* ---------------------------------------------- claims on the session tools
\* C21: no answer but that of the export operation carries signing material
\* (private key, mnemonic): not the answer of wallet creation, of a swap, or
\* of logout.
C21_KeyOnlyExported == result.privateKey # 0 => result.op = "export"

\* the step is logout_wallet of caller u answering v
LoggedOut(u, v) == result' = Answer(u, "logout", v)

\* C22: revokeSession of a token that is already invalid (unknown, revoked
\* before, or of a session idle for more than 24h) answers false; so a second
\* revokeSession of the same token answers false.
C22_RevokeInvalidFalse ==
  [][\A u \in Users :
       (TokenInvalid(u) /\ (LoggedOut(u, "true") \/ LoggedOut(u, "false")))
       => LoggedOut(u, "false")]_vars

\* the step resolves the token of caller u with success
Resolved(u) ==
  \/ result' = [Answer(u, "export", "exported")
                  EXCEPT !.privateKey = result'.privateKey]
  \/ pc[u] = "idle" /\ pc'[u] = "swapImport"

\* C23: a resolve of a valid token answers the session the tables hold for
\* it and leaves it valid and the same; and as long as a token stays valid
\* the session it resolves to (user, wallet record) is the same, so repeated
\* resolves answer the same session.
C23_ResolveIdempotent ==
  [][\A u \in Users :
       LET t == generateJWTToken(u) IN
       getUserSession(t) # NULL =>
         /\ getUserSession(t)' # NULL => getUserSession(t)' = getUserSession(t)
         /\ Resolved(u) =>
              /\ getUserSession(t)' = getUserSession(t)
              /\ result'.op = "export"
                   => result'.privateKey = getUserSession(t).wallet.privateKey]_vars
C23_Witness ==
  /\ result.op = "export" /\ result.value = "exported"
  /\ now > 0
  /\ getUserSession(generateJWTToken(result.caller)) # NULL
  /\ getUserSession(generateJWTToken(result.caller)).wallet.privateKey
       = result.privateKey
  /\ pc[result.caller] = "idle"

\* C27: revokeSession of one session changes nothing of another: the other
\* token resolves as before, and the wallet connection an operation of the
\* other session is in flight with stays connected with that session's key.
C27_RevokeFrame ==
  [][\A a, b \in Users :
       (a # b /\ LoggedOut(a, "true")) =>
         /\ getUserSession(generateJWTToken(b))' = getUserSession(generateJWTToken(b))
         /\ (pc[b] = "swapImport" /\ MapHas(wallets, loc[b].chain)
               /\ wallets[loc[b].chain] = loc[b].key)
            => (MapHas(wallets', loc[b].chain)
                  /\ wallets'[loc[b].chain] = loc[b].key)]_vars

\* C28: the four session tables agree in every reachable state: a token is
\* in sessionTokens exactly when its user is in users, exactly when its
\* wallet record is in userWallets, exactly when its session id is in
\* userSessions, and the entries name one another.
C28_TablesAgree ==
  /\ \A n \in Users :
       /\ MapHas(sessionTokens, generateJWTToken(generateUserId(n)))
            <=> MapHas(users, generateUserId(n))
       /\ MapHas(users, generateUserId(n)) <=> MapHas(userWallets, generateUserId(n))
       /\ MapHas(users, generateUserId(n)) <=> MapHas(userSessions, generateSessionId(n))
  /\ DOMAIN sessionTokens \subseteq Tokens
  /\ \A t \in DOMAIN sessionTokens : generateJWTToken(sessionTokens[t]) = t
  /\ \A x \in DOMAIN users :
       /\ users[x].id = x
       /\ MapHas(userSessions, users[x].sessionId)
       /\ userSessions[users[x].sessionId] = x
  /\ Cardinality(DOMAIN userSessions) = Cardinality(DOMAIN users)
  /\ Cardinality(DOMAIN userWallets) = Cardinality(DOMAIN users)
C28_Witness ==
  /\ revoked # {}
  /\ Cardinality(DOMAIN sessionTokens) = 1
  /\ now > maxInactiveTime
  /\ \E u \in Users : pc[u] = "swapImport"

\* C30: a createSession that fails part-way (a balance lookup throws during
\* the import) leaves no trace: no entry in a session table and no wallet
\* connection holding the discarded key.
C30_FailedCreateNoTrace ==
  [][\A u \in Users :
       (pc[u] = "creating" /\ result' = Answer(u, "create", "createFailed"))
       => /\ loc[u].key \notin tableKeys'
          /\ loc[u].key \notin walletKeys'
          /\ ~MapHas(sessionTokens', generateJWTToken(generateUserId(u)))]_vars

\* ------------------------------ claims on the comparison and the venue set
Compared == result.op \in CompareTools
Succeeded ==
  {CompareChains[i] : i \in {j \in DOMAIN result.answers : result.answers[j].ok}}

\* C24: the comparison answers the quotes of exactly the chains whose quote
\* call succeeded, one each, and it answers a failure exactly when every
\* chain failed.
C24_CompareOmitsFailed ==
  Compared =>
    /\ result.op = "compare_9mm_prices" =>
         /\ {q.chainId : q \in quoteSet(result.data)} = Succeeded
         /\ Len(result.data) = Cardinality(Succeeded)
    /\ (result.value = "error") <=> (Succeeded = {})

\* C25: whatever venues or chains fail (throw, time out, do not support the
\* chain), getBestQuote answers a result or its failure value and the
\* comparison answers; nothing is thrown, and the quotes answered are those
\* of the venues (chains) that did not fail.
C25_FailuresAbsorbed ==
  /\ Aggregated =>
       /\ result.data.success \/ result.data.code = "AGGREGATOR_ERROR"
       /\ result.data.success =>
            {q.dexProtocol : q \in quoteSet(result.data.allQuotes)} = Survivors
  /\ Compared =>
       /\ result.value \in {"ok", "error"}
       /\ {q.chainId : q \in quoteSet(result.data)} \subseteq Succeeded
C25_Witness ==
  /\ Aggregated /\ result.chainId = 8453
  /\ Asked = {NINE_MM, ONEINCH, UNISWAP_V3}
  /\ Survivors = {}
  /\ ~result.data.success

\* C26: every quote call in flight returns in the end, a venue or chain that
\* never answers counting as failed once its deadline has passed.
C26_QuoteCallsReturn == (quoting.op # "none") ~> (quoting.op = "none")

\* C29: a getBestQuote that starts asks no venue that is toggled off at that
\* moment (so such a venue contributes no quote to it).
C29_DisabledNotAsked ==
  [][(quoting.op = "none" /\ quoting'.op = "get_best_swap_quote")
     => \A i \in DOMAIN quoting'.dexs : isActive[quoting'.dexs[i]]]_vars
====
